---- MODULE Spec2Model ----
(***************************************************************************)
(* A model of plydata's verb implementations for pandas data frames        *)
(* (src/plydata/dataframe.py).                                             *)
(*                                                                         *)
(* A data frame value is a record                                          *)
(*    [cols, index, val, groups]                                           *)
(* cols   : the ordered column names                                       *)
(* index  : the row labels, one per row (the row count is Len(index))      *)
(* val    : a function from the column names to the column's values        *)
(* groups : the plydata_groups tag, <<>> for a plain DataFrame             *)
(*                                                                         *)
(* Objects have identity: frames[r] is a frame object (a block manager     *)
(* reference plus the tag), mgrs[m] is the column storage.  Two frame      *)
(* objects may share one block manager.                                    *)
(***************************************************************************)
EXTENDS Integers, Sequences, FiniteSets, TLC

VARIABLES
    selIn, selOut,
    nthIn, nthOut,
    giIn, giOut,
    sumIn, sumOut,
    registry, pcE, job, got, calls,
    option, frames, mgrs, call, ret, orig, pcV

selVars  == <<selIn, selOut>>
nthVars  == <<nthIn, nthOut>>
giVars   == <<giIn, giOut>>
sumVars  == <<sumIn, sumOut>>
evalVars == <<registry, pcE, job, got, calls>>
verbVars == <<option, frames, mgrs, call, ret, orig, pcV>>
vars == <<selVars, nthVars, giVars, sumVars, evalVars, verbVars>>

-----------------------------------------------------------------------------
(* Bounds of the model *)

MaxRows == 3
MaxSelCols == 3
MaxEvals == 2
MaxVerbRows == 2

Values == {1, 2}

-----------------------------------------------------------------------------
(* Generic helpers *)

Range(s) == {s[i] : i \in DOMAIN s}

Min2(a, b) == IF a < b THEN a ELSE b

SeqsUpTo(S, n) == UNION {[1..k -> S] : k \in 0..n}

NoDup(s) == \A i, j \in DOMAIN s : i # j => s[i] # s[j]

RECURSIVE Mask(_, _)
Mask(s, m) ==
    IF s = <<>> THEN <<>>
    ELSE IF m[1] THEN <<s[1]>> \o Mask(Tail(s), Tail(m))
         ELSE Mask(Tail(s), Tail(m))

LexLess(a, b) ==
    \E i \in 1..Len(a) : a[i] < b[i] /\ \A j \in 1..(i - 1) : a[j] = b[j]

\* The tuples of S as a sequence in ascending lexicographic order.
SortedTuples(S) ==
    [r \in 1..Cardinality(S) |->
        CHOOSE t \in S : Cardinality({u \in S : LexLess(u, t)}) = r - 1]

-----------------------------------------------------------------------------
(* Data frame values *)

NRows(ds) == Len(ds.index)

EmptyFrame(index) ==
    [cols |-> <<>>, index |-> index,
     val |-> [c \in {} |-> <<>>], groups |-> <<>>]

\* data[col] = value
SetCol(ds, col, value) ==
    [cols |-> IF col \in Range(ds.cols) THEN ds.cols ELSE Append(ds.cols, col),
     index |-> ds.index,
     val |-> [c \in Range(ds.cols) \cup {col} |->
                IF c = col THEN value ELSE ds.val[c]],
     groups |-> ds.groups]

\* data.insert(i, col, value), i counted from 0
InsertCol(ds, i, col, value) ==
    [cols |-> SubSeq(ds.cols, 1, i) \o <<col>> \o SubSeq(ds.cols, i + 1, Len(ds.cols)),
     index |-> ds.index,
     val |-> [c \in Range(ds.cols) \cup {col} |->
                IF c = col THEN value ELSE ds.val[c]],
     groups |-> ds.groups]

\* data.loc[:, cond] for a boolean vector over the columns
LocCols(ds, cond) ==
    LET kept == Mask(ds.cols, cond) IN
    [cols |-> kept, index |-> ds.index,
     val |-> [c \in Range(kept) |-> ds.val[c]], groups |-> ds.groups]

\* data.loc[:, names] for a list of column names
LocNames(ds, names) ==
    [cols |-> names, index |-> ds.index,
     val |-> [c \in Range(names) |-> ds.val[c]], groups |-> ds.groups]

\* the rows at the positions pos, in that order, with their labels
TakeRows(ds, pos) ==
    [cols |-> ds.cols,
     index |-> [i \in 1..Len(pos) |-> ds.index[pos[i]]],
     val |-> [c \in Range(ds.cols) |-> [i \in 1..Len(pos) |-> ds.val[c][pos[i]]]],
     groups |-> ds.groups]

\* the key tuple of row i
KeyOf(ds, keys, i) == [j \in 1..Len(keys) |-> ds.val[keys[j]][i]]

KeySet(ds, keys) == {KeyOf(ds, keys, i) : i \in 1..NRows(ds)}

\* the positions i..NRows(ds) whose key tuple is k, ascending
RECURSIVE RowsOfKeyFrom(_, _, _, _)
RowsOfKeyFrom(ds, keys, k, i) ==
    IF i > NRows(ds) THEN <<>>
    ELSE IF KeyOf(ds, keys, i) = k THEN <<i>> \o RowsOfKeyFrom(ds, keys, k, i + 1)
         ELSE RowsOfKeyFrom(ds, keys, k, i + 1)

RowsOfKey(ds, keys, k) == RowsOfKeyFrom(ds, keys, k, 1)

\* pd.concat(dfs, axis=0, ignore_index=True) of frames with the same columns
RECURSIVE ConcatVals(_, _)
ConcatVals(dfs, c) ==
    IF dfs = <<>> THEN <<>> ELSE dfs[1].val[c] \o ConcatVals(Tail(dfs), c)

RECURSIVE TotalRows(_)
TotalRows(dfs) == IF dfs = <<>> THEN 0 ELSE NRows(dfs[1]) + TotalRows(Tail(dfs))

Concat(dfs) ==
    [cols |-> dfs[1].cols,
     index |-> [i \in 1..TotalRows(dfs) |-> i - 1],
     val |-> [c \in Range(dfs[1].cols) |-> ConcatVals(dfs, c)],
     groups |-> <<>>]

-----------------------------------------------------------------------------
(* select *)

\* Column names and patterns as character sequences.  "n1" stands for a
\* column whose name is the integer 1, not a string.
Chars(s) ==
    CASE s = "" -> <<>>
      [] s = "a" -> <<"a">>
      [] s = "x" -> <<"x">>
      [] s = "y" -> <<"y">>
      [] s = "z" -> <<"z">>
      [] s = "ax" -> <<"a", "x">>
      [] s = "xa" -> <<"x", "a">>
      [] s = ".a" -> <<".", "a">>

IsStr(c) == c # "n1"

StartsWith(s, p) ==
    Len(p) <= Len(s) /\ SubSeq(s, 1, Len(p)) = p

EndsWith(s, p) ==
    Len(p) <= Len(s) /\ SubSeq(s, Len(s) - Len(p) + 1, Len(s)) = p

Contains(s, p) ==
    \E k \in 0..(Len(s) - Len(p)) : SubSeq(s, k + 1, k + Len(p)) = p

\* re.compile(p).match(s) for patterns of literal characters and ".":
\* the pattern must match at the start of s.
ReMatch(p, s) ==
    Len(p) <= Len(s) /\ \A i \in 1..Len(p) : p[i] = "." \/ p[i] = s[i]

AllFalse(columns) == [i \in 1..Len(columns) |-> FALSE]

LogicalOr(cs, n) == [i \in 1..n |-> \E k \in 1..Len(cs) : cs[k][i]]

\* if kw['drop']: cond = ~cond
SelectCondDropFirst(c15, c6, drop, n) ==
    LET early == LogicalOr(c15, n)
        inv == IF drop THEN [i \in 1..n |-> ~early[i]] ELSE early
    IN LogicalOr(<<inv, c6>>, n)

SelectCond(c15, c6, drop, n) ==
    LET cond == LogicalOr(c15 \o <<c6>>, n)
    IN IF drop THEN [i \in 1..n |-> ~cond[i]] ELSE cond

select(data, args, kw) ==
    LET columns == data.cols
        groups == data.groups
        n == Len(columns)
        c0 == AllFalse(columns)
        c1 == IF args # {} THEN [i \in 1..n |-> columns[i] \in args] ELSE c0
        c2 == IF kw.startswith # ""
              THEN [i \in 1..n |-> IsStr(columns[i])
                        /\ StartsWith(Chars(columns[i]), Chars(kw.startswith))]
              ELSE c0
        c3 == IF kw.endswith # ""
              THEN [i \in 1..n |-> IsStr(columns[i])
                        /\ EndsWith(Chars(columns[i]), Chars(kw.endswith))]
              ELSE c0
        c4 == IF kw.contains # ""
              THEN [i \in 1..n |-> IsStr(columns[i])
                        /\ Contains(Chars(columns[i]), Chars(kw.contains))]
              ELSE c0
        c5 == IF kw.matches # ""
              THEN [i \in 1..n |-> IsStr(columns[i])
                        /\ ReMatch(Chars(kw.matches), Chars(columns[i]))]
              ELSE c0
        c6 == IF groups # <<>>
              THEN [i \in 1..n |-> columns[i] \in Range(groups)]
              ELSE c0
        cond == SelectCond(<<c1, c2, c3, c4, c5>>, c6, kw.drop, n)
    IN LocCols(data, cond)

SelNames == {"x", "ax", "xa", "n1"}

SelKwargs ==
    [startswith : {"", "a", "x"}, endswith : {"", "a"}, contains : {"", "a"},
     matches : {"", ".a", "x"}, drop : BOOLEAN]

NoKw == [startswith |-> "", endswith |-> "", contains |-> "", matches |-> "",
         drop |-> FALSE]

SelColumnLists == {s \in SeqsUpTo(SelNames, MaxSelCols) : s # <<>> /\ NoDup(s)}

NoData == EmptyFrame(<<>>)

SelIdle == [data |-> NoData, args |-> {}, kw |-> NoKw]

-----------------------------------------------------------------------------
(* Expressions of mutate, transmute, group_by, distinct and group_indices *)

\* A text expression naming a column ("x"), a text expression "x + 1", an
\* already-materialized sequence, and a value without a length (a scalar).
Text(c) == [k |-> "col", c |-> c, v |-> <<>>]
TextInc(c) == [k |-> "inc", c |-> c, v |-> <<>>]
SeqVal(v) == [k |-> "seq", c |-> "", v |-> v]
Scalar(n) == [k |-> "scalar", c |-> "", v |-> <<n>>]

IsText(expr) == expr.k \in {"col", "inc"}
HasLen(expr) == expr.k = "seq"

\* verb.env.eval(expr, inner_namespace=data): the row namespace binds the
\* column names to the column vectors; an unknown name fails.
EnvEval(expr, data) ==
    IF expr.c \notin Range(data.cols)
    THEN [exc |-> "NameError", v |-> <<>>]
    ELSE [exc |-> "none",
          v |-> IF expr.k = "col" THEN data.val[expr.c]
                ELSE [i \in 1..NRows(data) |-> data.val[expr.c][i] + 1]]

\* One pass of the loop of _evaluate_expressions: expressions i.. are
\* evaluated against vdata (verb.data) and stored in the new frame data.
RECURSIVE EvaluateFrom(_, _, _, _, _)
EvaluateFrom(vdata, new_columns, expressions, i, data) ==
    IF i > Min2(Len(new_columns), Len(expressions))
    THEN [exc |-> "none", data |-> data]
    ELSE LET col == new_columns[i]
             expr == expressions[i]
         IN IF IsText(expr)
            THEN LET r == EnvEval(expr, vdata)
                 IN IF r.exc # "none"
                    THEN [exc |-> r.exc, data |-> data]
                    ELSE EvaluateFrom(vdata, new_columns, expressions, i + 1,
                                      SetCol(data, col, r.v))
            ELSE IF HasLen(expr)
            THEN IF NRows(vdata) = Len(expr.v)
                 THEN EvaluateFrom(vdata, new_columns, expressions, i + 1,
                                   SetCol(data, col, expr.v))
                 ELSE [exc |-> "ValueError", data |-> data]
            ELSE [exc |-> "TypeError", data |-> data]

\* A variant in which a value without a length is broadcast to every row.
RECURSIVE EvaluateFromBroadcast(_, _, _, _, _)
EvaluateFromBroadcast(vdata, new_columns, expressions, i, data) ==
    IF i > Min2(Len(new_columns), Len(expressions))
    THEN [exc |-> "none", data |-> data]
    ELSE LET col == new_columns[i]
             expr == expressions[i]
         IN IF IsText(expr)
            THEN LET r == EnvEval(expr, vdata)
                 IN IF r.exc # "none"
                    THEN [exc |-> r.exc, data |-> data]
                    ELSE EvaluateFromBroadcast(vdata, new_columns, expressions, i + 1,
                                      SetCol(data, col, r.v))
            ELSE IF HasLen(expr)
            THEN IF NRows(vdata) = Len(expr.v)
                 THEN EvaluateFromBroadcast(vdata, new_columns, expressions, i + 1,
                                   SetCol(data, col, expr.v))
                 ELSE [exc |-> "ValueError", data |-> data]
            ELSE EvaluateFromBroadcast(vdata, new_columns, expressions, i + 1,
                        SetCol(data, col, [j \in 1..NRows(vdata) |-> expr.v[1]]))

\* A variant in which every expression sees the columns assigned by the
\* expressions before it.
RECURSIVE EvaluateFromCascade(_, _, _, _, _)
EvaluateFromCascade(vdata, new_columns, expressions, i, data) ==
    IF i > Min2(Len(new_columns), Len(expressions))
    THEN [exc |-> "none", data |-> data]
    ELSE LET col == new_columns[i]
             expr == expressions[i]
         IN IF IsText(expr)
            THEN LET r == EnvEval(expr, vdata)
                 IN IF r.exc # "none"
                    THEN [exc |-> r.exc, data |-> data]
                    ELSE EvaluateFromCascade(SetCol(vdata, col, r.v), new_columns,
                                      expressions, i + 1, SetCol(data, col, r.v))
            ELSE IF HasLen(expr)
            THEN IF NRows(vdata) = Len(expr.v)
                 THEN EvaluateFromCascade(SetCol(vdata, col, expr.v), new_columns,
                                   expressions, i + 1, SetCol(data, col, expr.v))
                 ELSE [exc |-> "ValueError", data |-> data]
            ELSE [exc |-> "TypeError", data |-> data]

evaluate_expressions_broadcast(vdata, new_columns, expressions) ==
    EvaluateFromBroadcast(vdata, new_columns, expressions, 1, EmptyFrame(vdata.index))

evaluate_expressions_cascade(vdata, new_columns, expressions) ==
    EvaluateFromCascade(vdata, new_columns, expressions, 1, EmptyFrame(vdata.index))

evaluate_expressions(vdata, new_columns, expressions) ==
    EvaluateFrom(vdata, new_columns, expressions, 1, EmptyFrame(vdata.index))

\* for col in new_data: data[col] = new_data[col]
RECURSIVE AssignFrom(_, _, _)
AssignFrom(data, new_data, i) ==
    IF i > Len(new_data.cols) THEN data
    ELSE AssignFrom(SetCol(data, new_data.cols[i], new_data.val[new_data.cols[i]]),
                    new_data, i + 1)

AssignAll(data, new_data) == AssignFrom(data, new_data, 1)

get_base_dataframe(df) ==
    IF df.groups # <<>>
    THEN LocNames(df, df.groups)
    ELSE EmptyFrame(df.index)

\* transmute on frame values: the result is always a new frame.
transmute_value(vdata, new_columns, expressions) ==
    LET data == get_base_dataframe(vdata)
        new_data == evaluate_expressions(vdata, new_columns, expressions)
    IN IF new_data.exc # "none"
       THEN [exc |-> new_data.exc, data |-> data]
       ELSE [exc |-> "none", data |-> AssignAll(data, new_data.data)]

-----------------------------------------------------------------------------
(* group_indices *)

\* sorted(indices_dict.items()): the distinct key tuples, ascending
SortedItemsDescending(data, groups) ==
    LET S == KeySet(data, groups)
    IN [r \in 1..Cardinality(S) |->
          CHOOSE t \in S : Cardinality({u \in S : LexLess(t, u)}) = r - 1]

SortedItems(data, groups) == SortedTuples(KeySet(data, groups))

\* indices = -np.ones(len(data)); for i, (_, idx) in enumerate(items):
\* indices[idx] = i
LabelRows(data, groups, items) ==
    [p \in 1..NRows(data) |->
        LET hit == {i \in 1..Len(items) : items[i] = KeyOf(data, groups, p)}
        IN IF hit = {} THEN 0 - 1
           ELSE (CHOOSE i \in hit : \A j \in hit : j <= i) - 1]

group_indices(vdata, vgroups, new_columns, expressions) ==
    LET grouped == vdata.groups # <<>>
        warned == grouped /\ vgroups # <<>>
        groups == IF grouped /\ vgroups = <<>> THEN vdata.groups ELSE vgroups
        tr == IF grouped THEN [exc |-> "none", data |-> vdata]
              ELSE transmute_value(vdata, new_columns, expressions)
        data == tr.data
    IN IF tr.exc # "none"
       THEN [exc |-> tr.exc, v |-> <<>>, warned |-> warned, groups |-> groups]
       ELSE IF groups = <<>>
       THEN [exc |-> "ValueError", v |-> <<>>, warned |-> warned, groups |-> groups]
       ELSE IF ~(Range(groups) \subseteq Range(data.cols))
       THEN [exc |-> "KeyError", v |-> <<>>, warned |-> warned, groups |-> groups]
       ELSE [exc |-> "none",
             v |-> LabelRows(data, groups, SortedItems(data, groups)),
             warned |-> warned, groups |-> groups]

-----------------------------------------------------------------------------
(* Aggregate functions *)

\* arr.iloc[n]
ILoc(arr, n) ==
    IF n >= 0 /\ n < Len(arr)
    THEN [exc |-> "none", nan |-> FALSE, v |-> arr[n + 1]]
    ELSE IF n < 0 /\ 0 - n <= Len(arr)
    THEN [exc |-> "none", nan |-> FALSE, v |-> arr[Len(arr) + n + 1]]
    ELSE [exc |-> "IndexError", nan |-> FALSE, v |-> 0]

\* try: return arr.iloc[n] / except KeyError: raise np.nan
\* (raising a float is itself a TypeError)
nth(arr, n) ==
    LET r == ILoc(arr, n)
    IN IF r.exc = "KeyError"
       THEN [exc |-> "TypeError", nan |-> FALSE, v |-> 0]
       ELSE r

first(arr) == nth(arr, 0)

last(arr) == nth(arr, 0 - 1)

n_distinct(arr) == Cardinality(Range(arr))

PlaceholderKeyClash == "nth"

PlaceholderKey == "_plydata_n"

Reducer(name) == [fn |-> name, owner |-> 0, n |-> 0]

\* _aggregate_functions, the module-level dictionary
aggregate_functions ==
    [name \in {"min", "max", "sum", "cumsum", "mean", "median", "std",
               "first", "last", "nth", "n_distinct", "n_unique"} |->
        CASE name = "min" -> Reducer("np.min")
          [] name = "max" -> Reducer("np.max")
          [] name = "sum" -> Reducer("np.sum")
          [] name = "cumsum" -> Reducer("np.cumsum")
          [] name = "mean" -> Reducer("np.mean")
          [] name = "median" -> Reducer("np.median")
          [] name = "std" -> Reducer("np.std")
          [] name = "first" -> Reducer("lambda_nth_0")
          [] name = "last" -> Reducer("lambda_nth_m1")
          [] name = "nth" -> Reducer("_nth")
          [] name = "n_distinct" -> Reducer("_n_distinct")
          [] name = "n_unique" -> Reducer("_n_distinct")]

-----------------------------------------------------------------------------
(* summarize *)

\* Summarize expressions: the text "f(c)" for a reducer f of the registry,
\* the text "nth(c, n)", the text "{n}", the text "c" (a column, not
\* reduced), and a value that is not text.  mean, median and std return
\* floats; they are entries of the registry and are not evaluated here.
Agg(f, c) == [k |-> "agg", f |-> f, c |-> c, n |-> 0]
NthOf(c, n) == [k |-> "agg", f |-> "nth", c |-> c, n |-> n]
CountN == [k |-> "n", f |-> "", c |-> "", n |-> 0]
ColExpr(c) == [k |-> "col", f |-> "", c |-> c, n |-> 0]
Lit(v) == [k |-> "lit", f |-> "", c |-> "", n |-> v]

RECURSIVE SumSeq(_)
SumSeq(arr) == IF arr = <<>> THEN 0 ELSE arr[1] + SumSeq(Tail(arr))

ScalarValue(x) == [exc |-> "none", shape |-> "scalar", v |-> <<x>>]
VectorValue(xs) == [exc |-> "none", shape |-> "vector", v |-> xs]
Raised(e) == [exc |-> e, shape |-> "scalar", v |-> <<>>]

FromNth(r) == IF r.exc # "none" THEN Raised(r.exc) ELSE ScalarValue(r.v)

\* the call of a reducer of _aggregate_functions
AggApply(f, arr, n) ==
    CASE f = "min" ->
            IF arr = <<>> THEN Raised("ValueError")
            ELSE ScalarValue(CHOOSE x \in Range(arr) : \A y \in Range(arr) : x <= y)
      [] f = "max" ->
            IF arr = <<>> THEN Raised("ValueError")
            ELSE ScalarValue(CHOOSE x \in Range(arr) : \A y \in Range(arr) : x >= y)
      [] f = "sum" -> ScalarValue(SumSeq(arr))
      [] f = "cumsum" -> VectorValue([i \in 1..Len(arr) |-> SumSeq(SubSeq(arr, 1, i))])
      [] f = "first" -> FromNth(first(arr))
      [] f = "last" -> FromNth(last(arr))
      [] f = "nth" -> FromNth(nth(arr, n))
      [] f = "n_distinct" -> ScalarValue(n_distinct(arr))
      [] f = "n_unique" -> ScalarValue(n_distinct(arr))

\* expr.format(n='_plydata_n()') and env.eval(expr, inner_namespace=gdf) with
\* _plydata_n registered for this call: it returns len(gdf).
SummEval(expr, gdf) ==
    CASE expr.k = "lit" -> ScalarValue(expr.n)
      [] expr.k = "n" -> ScalarValue(NRows(gdf))
      [] expr.k = "col" ->
            IF expr.c \in Range(gdf.cols) THEN VectorValue(gdf.val[expr.c])
            ELSE Raised("NameError")
      [] expr.k = "agg" ->
            IF expr.c \in Range(gdf.cols) THEN AggApply(expr.f, gdf.val[expr.c], expr.n)
            ELSE Raised("NameError")

Broadcast(r, n) == IF r.shape = "vector" THEN r.v ELSE [j \in 1..n |-> r.v[1]]

\* The loop of _eval_summarize_expressions.  acc.bound says whether the
\* local name data is bound yet.
RECURSIVE SummLoop(_, _, _, _, _)

\* One pass of the loop body with r the value of expression i.
SummAssign(expressions, columns, gdf, i, acc, r) ==
    IF r.exc # "none" THEN [exc |-> r.exc, acc |-> acc]
    ELSE IF acc.bound
    THEN IF r.shape = "vector" /\ Len(r.v) # NRows(acc.data)
         THEN [exc |-> "ValueError", acc |-> acc]
         ELSE SummLoop(expressions, columns, gdf, i + 1,
                [bound |-> TRUE,
                 data |-> SetCol(acc.data, columns[i],
                                 Broadcast(r, NRows(acc.data)))])
    ELSE LET n == IF r.shape = "vector" THEN Len(r.v) ELSE 1
         IN SummLoop(expressions, columns, gdf, i + 1,
                [bound |-> TRUE,
                 data |-> SetCol(EmptyFrame([j \in 1..n |-> j - 1]),
                                 columns[i], Broadcast(r, n))])

SummLoop(expressions, columns, gdf, i, acc) ==
    IF i > Min2(Len(columns), Len(expressions))
    THEN [exc |-> "none", acc |-> acc]
    ELSE SummAssign(expressions, columns, gdf, i, acc, SummEval(expressions[i], gdf))

\* A variant that appends the grouped-on columns after the computed ones.
RECURSIVE InsertGroupsLast(_, _, _)
InsertGroupsLast(data, gdf, i) ==
    IF i > Len(gdf.groups) THEN [exc |-> "none", data |-> data]
    ELSE LET col == gdf.groups[i]
             k == ILoc(gdf.val[col], 0)
         IN IF k.exc # "none" THEN [exc |-> k.exc, data |-> data]
            ELSE IF col \in Range(data.cols) THEN [exc |-> "ValueError", data |-> data]
            ELSE InsertGroupsLast(
                    InsertCol(data, Len(data.cols), col, [j \in 1..NRows(data) |-> k.v]),
                    gdf, i + 1)

\* for i, col in enumerate(gdf.plydata_groups):
\*     data.insert(i, col, gdf[col].iloc[0])
RECURSIVE InsertGroups(_, _, _)
InsertGroups(data, gdf, i) ==
    IF i > Len(gdf.groups) THEN [exc |-> "none", data |-> data]
    ELSE LET col == gdf.groups[i]
             k == ILoc(gdf.val[col], 0)
         IN IF k.exc # "none" THEN [exc |-> k.exc, data |-> data]
            ELSE IF col \in Range(data.cols) THEN [exc |-> "ValueError", data |-> data]
            ELSE InsertGroups(
                    InsertCol(data, i - 1, col, [j \in 1..NRows(data) |-> k.v]),
                    gdf, i + 1)

\* The end of _eval_summarize_expressions, r the outcome of its loop: data
\* is unbound when the loop did not run.
AddGroups(r, gdf) ==
    IF r.exc # "none" THEN [exc |-> r.exc, data |-> NoData]
    ELSE IF ~r.acc.bound THEN [exc |-> "NameError", data |-> NoData]
    ELSE IF gdf.groups # <<>> THEN InsertGroups(r.acc.data, gdf, 1)
    ELSE [exc |-> "none", data |-> r.acc.data]

eval_summarize_expressions(expressions, columns, gdf) ==
    AddGroups(SummLoop(expressions, columns, gdf, 1, [bound |-> FALSE, data |-> NoData]),
              gdf)

\* for _, gdf in data.groupby(data.plydata_groups): the partitions in
\* ascending order of their key tuples
Partitions(data) ==
    LET items == SortedTuples(KeySet(data, data.groups))
    IN [i \in 1..Len(items) |-> TakeRows(data, RowsOfKey(data, data.groups, items[i]))]

\* dfs = [... for _, gdf in grouper] and pd.concat(dfs): res holds the
\* outcome for each partition, and the first exception ends the call
ConcatResults(res) ==
    LET bad == {i \in 1..Len(res) : res[i].exc # "none"}
        dfs == [i \in 1..Len(res) |-> res[i].data]
    IN IF bad # {}
       THEN [exc |-> res[CHOOSE i \in bad : \A j \in bad : i <= j].exc,
             data |-> NoData, dfs |-> <<>>]
       ELSE IF dfs = <<>>
       THEN [exc |-> "ValueError", data |-> NoData, dfs |-> dfs]
       ELSE [exc |-> "none", data |-> Concat(dfs), dfs |-> dfs]

SummarizeParts(parts, columns, expressions) ==
    ConcatResults([i \in 1..Len(parts) |->
                     eval_summarize_expressions(expressions, columns, parts[i])])

\* the outcome r of the one evaluation over an ungrouped frame
Ungrouped(r) == [exc |-> r.exc, data |-> r.data, dfs |-> <<>>]

summarize(data, columns, expressions) ==
    IF data.groups = <<>>
    THEN Ungrouped(eval_summarize_expressions(expressions, columns, data))
    ELSE SummarizeParts(Partitions(data), columns, expressions)

-----------------------------------------------------------------------------
(* Frame objects and the verbs that act on them *)

View(h, r) ==
    LET m == h.mgrs[h.frames[r].mgr]
    IN [cols |-> m.cols, index |-> m.index, val |-> m.val,
        groups |-> h.frames[r].groups]

Block(ds) == [cols |-> ds.cols, index |-> ds.index, val |-> ds.val]

\* a new frame object with a block manager of its own
Alloc(h, ds) ==
    [frames |-> Append(h.frames, [mgr |-> Len(h.mgrs) + 1, groups |-> ds.groups]),
     mgrs |-> Append(h.mgrs, Block(ds))]

\* a new frame object on the block manager of frame r: pd.DataFrame(df)
\* and GroupedDataFrame(df, groups, copy=False) do not copy the data
Wrap(h, r, groups) ==
    [frames |-> Append(h.frames, [mgr |-> h.frames[r].mgr, groups |-> groups]),
     mgrs |-> h.mgrs]

\* a write of columns through frame object r
Store(h, r, ds) ==
    [frames |-> h.frames,
     mgrs |-> [h.mgrs EXCEPT ![h.frames[r].mgr] = Block(ds)]]

Newest(h) == Len(h.frames)

Returned(h, r) ==
    [h |-> h, ret |-> [kind |-> "frame", ref |-> r, v |-> <<>>, exc |-> "none"]]
\* the frame ds as a new frame object of its own, returned; ds is computed once
ReturnedNew(h, ds) ==
    CHOOSE out \in {Returned(Alloc(h, d), Len(h.frames) + 1) : d \in {ds}} : TRUE
ReturnedArray(h, v) ==
    [h |-> h, ret |-> [kind |-> "array", ref |-> 0, v |-> v, exc |-> "none"]]
RaisedIn(h, e) ==
    [h |-> h, ret |-> [kind |-> "raise", ref |-> 0, v |-> <<>>, exc |-> e]]

mutate(h, opt, vdata, new_columns, expressions) ==
    LET h1 == IF opt THEN h ELSE Alloc(h, View(h, vdata))
        data == IF opt THEN vdata ELSE Newest(h1)
        new_data == evaluate_expressions(View(h, vdata), new_columns, expressions)
    IN IF new_data.exc # "none" THEN RaisedIn(h1, new_data.exc)
       ELSE Returned(Store(h1, data, AssignAll(View(h1, data), new_data.data)), data)

transmute(h, vdata, new_columns, expressions) ==
    LET r == transmute_value(View(h, vdata), new_columns, expressions)
        h1 == Alloc(h, r.data)
    IN IF r.exc # "none" THEN RaisedIn(h1, r.exc) ELSE Returned(h1, Newest(h1))

select_frame(h, vdata, args, kw) ==
    LET h1 == Alloc(h, select(View(h, vdata), args, kw))
    IN Returned(h1, Newest(h1))

\* DataFrame.rename(columns=lookup)
RenameCols(ds, lookup) ==
    LET L(c) == IF c \in DOMAIN lookup THEN lookup[c] ELSE c
    IN [cols |-> [i \in 1..Len(ds.cols) |-> L(ds.cols[i])],
        index |-> ds.index,
        val |-> [c2 \in {L(c) : c \in Range(ds.cols)} |->
                    ds.val[CHOOSE c \in Range(ds.cols) : L(c) = c2]],
        groups |-> ds.groups]

rename(h, opt, vdata, lookup) ==
    LET renamed == RenameCols(View(h, vdata), lookup)
        h1 == Alloc(h, renamed)
    IN IF opt THEN Returned(Store(h, vdata, renamed), vdata)
       ELSE Returned(h1, Newest(h1))

\* the positions i.. kept by drop_duplicates(subset, keep)
RECURSIVE KeptFrom(_, _, _, _)
KeptFrom(ds, sub, keep, i) ==
    IF i > NRows(ds) THEN <<>>
    ELSE LET same(j) == KeyOf(ds, sub, j) = KeyOf(ds, sub, i)
             kept == CASE keep = "first" -> ~\E j \in 1..(i - 1) : same(j)
                       [] keep = "last" -> ~\E j \in (i + 1)..NRows(ds) : same(j)
                       [] keep = "none" -> ~\E j \in 1..NRows(ds) : j # i /\ same(j)
         IN (IF kept THEN <<i>> ELSE <<>>) \o KeptFrom(ds, sub, keep, i + 1)

DropDuplicates(ds, subset, keep) ==
    TakeRows(ds, KeptFrom(ds, IF subset = <<>> THEN ds.cols ELSE subset, keep, 1))

distinct(h, opt, vdata, hasnew, new_columns, expressions, columns, keep) ==
    LET m == IF hasnew THEN mutate(h, opt, vdata, new_columns, expressions)
             ELSE Returned(h, vdata)
        data == View(m.h, m.ret.ref)
        h1 == Alloc(m.h, DropDuplicates(data, columns, keep))
    IN IF m.ret.kind = "raise" THEN m
       ELSE IF ~(Range(columns) \subseteq Range(data.cols)) THEN RaisedIn(m.h, "KeyError")
       ELSE Returned(h1, Newest(h1))

\* df.sort_values(by=list(df.columns)).index: the positions in ascending
\* order of their key tuples, equal keys in their original order
SortedIndex(keys, n) ==
    LET before(j, i) == LexLess(keys[j], keys[i]) \/ (keys[j] = keys[i] /\ j < i)
    IN [r \in 1..n |->
          CHOOSE i \in 1..n : Cardinality({j \in 1..n : before(j, i)}) = r - 1]

arrange(h, vdata, expressions) ==
    LET data == View(h, vdata)
        ev == [k \in 1..Len(expressions) |-> EnvEval(expressions[k], data)]
        bad == {k \in 1..Len(expressions) : ev[k].exc # "none"}
        keys == [i \in 1..NRows(data) |-> [k \in 1..Len(expressions) |-> ev[k].v[i]]]
        h1 == Alloc(h, TakeRows(data, SortedIndex(keys, NRows(data))))
    IN IF bad # {} THEN RaisedIn(h, ev[CHOOSE k \in bad : \A j \in bad : k <= j].exc)
       ELSE IF Len(expressions) > 0 THEN Returned(h1, Newest(h1))
       ELSE Returned(h, vdata)

\* GroupedDataFrame(data, groups, copy=copy)
GroupedDataFrame(h, r, groups, copy) ==
    IF copy THEN Alloc(h, [View(h, r) EXCEPT !.groups = groups])
    ELSE Wrap(h, r, groups)

group_by(h, opt, vdata, groups, new_columns, expressions) ==
    LET copy == ~opt
        h1 == GroupedDataFrame(h, vdata, groups, copy)
    IN mutate(h1, opt, Newest(h1), new_columns, expressions)

ungroup(h, vdata) ==
    LET h1 == Wrap(h, vdata, <<>>)
    IN Returned(h1, Newest(h1))

group_indices_frame(h, vdata, groups, new_columns, expressions) ==
    LET r == group_indices(View(h, vdata), groups, new_columns, expressions)
    IN IF r.exc # "none" THEN RaisedIn(h, r.exc) ELSE ReturnedArray(h, r.v)

\* r.data as a new frame object, or the exception r.exc
FrameOrRaise(h, r) ==
    IF r.exc # "none" THEN RaisedIn(h, r.exc) ELSE ReturnedNew(h, r.data)

summarize_frame(h, vdata, columns, expressions) ==
    FrameOrRaise(h, summarize(View(h, vdata), columns, expressions))

\* the positions i.. of the TRUE entries of flags
RECURSIVE TruePositions(_, _)
TruePositions(flags, i) ==
    IF i > Len(flags) THEN <<>>
    ELSE (IF flags[i] THEN <<i>> ELSE <<>>) \o TruePositions(flags, i + 1)

\* verb.data.query(expression) for the expressions "c > v"
query(h, vdata, expression) ==
    LET data == View(h, vdata)
        flags == [i \in 1..NRows(data) |-> data.val[expression.c][i] > expression.v]
        h1 == Alloc(h, TakeRows(data, TruePositions(flags, 1)))
    IN IF expression.c \notin Range(data.cols) THEN RaisedIn(h, "NameError")
       ELSE Returned(h1, Newest(h1))

HeadRows(ds, n) == TakeRows(ds, [i \in 1..Min2(n, NRows(ds)) |-> i])

TailRows(ds, n) ==
    TakeRows(ds, [i \in 1..Min2(n, NRows(ds)) |-> NRows(ds) - Min2(n, NRows(ds)) + i])

head(h, vdata, n) ==
    LET data == View(h, vdata)
        parts == Partitions(data)
        dfs == [i \in 1..Len(parts) |-> HeadRows(parts[i], n)]
    IN IF data.groups = <<>> THEN ReturnedNew(h, HeadRows(data, n))
       ELSE IF dfs = <<>> THEN RaisedIn(h, "ValueError")
       ELSE ReturnedNew(h, [Concat(dfs) EXCEPT !.groups = data.groups])

tail(h, vdata, n) ==
    LET data == View(h, vdata)
        parts == Partitions(data)
        dfs == [i \in 1..Len(parts) |-> TailRows(parts[i], n)]
    IN IF data.groups = <<>> THEN ReturnedNew(h, TailRows(data, n))
       ELSE IF dfs = <<>> THEN RaisedIn(h, "ValueError")
       ELSE ReturnedNew(h, [Concat(dfs) EXCEPT !.groups = data.groups])

\* for i, col in enumerate(gdf.plydata_groups):
\*     if col not in data: data.insert(i, col, gdf[col].iloc[0])
RECURSIVE BackFill(_, _, _)
BackFill(data, gdf, i) ==
    IF i > Len(gdf.groups) THEN data
    ELSE LET col == gdf.groups[i]
         IN IF col \in Range(data.cols) THEN BackFill(data, gdf, i + 1)
            ELSE BackFill(InsertCol(data, i - 1, col,
                                    [j \in 1..NRows(data) |-> gdf.val[col][1]]),
                          gdf, i + 1)

\* The functions given to do: "ident" returns the frame it was given,
\* "head1" its first row, "ycol" the column y alone; "len" and "yvals"
\* return a number and a vector for the multiple-function form.
ApplyFunction(f, gdf) ==
    CASE f = "ident" -> gdf
      [] f = "head1" -> HeadRows(gdf, 1)
      [] f = "ycol" -> [LocNames(gdf, <<"y">>) EXCEPT !.groups = <<>>]

eval_do_single_function(function, gdf) ==
    BackFill(ApplyFunction(function, gdf), gdf, 1)

\* data.plydata_groups = list(groups) on the concatenated frame
Regroup(r, groups) ==
    IF r.exc # "none" THEN r ELSE [r EXCEPT !.data = [@ EXCEPT !.groups = groups]]

DoSingleParts(parts, groups, func) ==
    Regroup(ConcatResults([i \in 1..Len(parts) |->
                             [exc |-> "none",
                              data |-> eval_do_single_function(func, parts[i])]]),
            groups)

do_single_function(h, vdata, func) ==
    IF h.frames[vdata].groups = <<>>
    THEN IF func = "ident" THEN Returned(h, vdata)
         ELSE ReturnedNew(h, ApplyFunction(func, View(h, vdata)))
    ELSE FrameOrRaise(h, DoSingleParts(Partitions(View(h, vdata)),
                                       h.frames[vdata].groups, func))

FunctionExpr(f) == IF f = "len" THEN CountN ELSE ColExpr("y")

\* The end of _eval_do_functions, r the outcome of its loop.
AddMissingGroups(r, gdf) ==
    IF r.exc # "none" THEN [exc |-> r.exc, data |-> NoData]
    ELSE IF ~r.acc.bound THEN [exc |-> "NameError", data |-> NoData]
    ELSE [exc |-> "none", data |-> BackFill(r.acc.data, gdf, 1)]

eval_do_functions(functions, columns, gdf) ==
    AddMissingGroups(
        SummLoop([i \in 1..Len(functions) |-> FunctionExpr(functions[i])],
                 columns, gdf, 1, [bound |-> FALSE, data |-> NoData]),
        gdf)

DoParts(parts, groups, columns, functions) ==
    Regroup(ConcatResults([i \in 1..Len(parts) |->
                             eval_do_functions(functions, columns, parts[i])]),
            groups)

do_functions(h, vdata, columns, functions) ==
    IF h.frames[vdata].groups = <<>>
    THEN FrameOrRaise(h, eval_do_functions(functions, columns, View(h, vdata)))
    ELSE FrameOrRaise(h, DoParts(Partitions(View(h, vdata)), h.frames[vdata].groups,
                                 columns, functions))

do(h, vdata, func, columns, functions) ==
    IF func # "none" THEN do_single_function(h, vdata, func)
    ELSE do_functions(h, vdata, columns, functions)

-----------------------------------------------------------------------------
(* Inputs *)

Columns(n) == [1..n -> Values]

\* The frames with columns x and y, a default index and at most n rows.
Frames(n, tags) ==
    UNION {
        {[cols |-> <<"x", "y">>, index |-> [i \in 1..k |-> i - 1],
          val |-> [c \in {"x", "y"} |-> IF c = "x" THEN xs ELSE ys],
          groups |-> g] :
            xs \in Columns(k), ys \in Columns(k), g \in tags} :
        k \in 0..n}

SelOut0 == [done |-> FALSE, data |-> NoData]
NthIdle == [f |-> "nth", arr |-> <<>>, n |-> 0]
NthOut0 == [done |-> FALSE, r |-> [exc |-> "none", nan |-> FALSE, v |-> 0]]
GiIdle == [data |-> NoData, groups |-> <<>>, new_columns |-> <<>>, expressions |-> <<>>]
GiOut0 == [done |-> FALSE,
           r |-> [exc |-> "none", v |-> <<>>, warned |-> FALSE, groups |-> <<>>]]
SumIdle == [data |-> NoData, columns |-> <<>>, expressions |-> <<>>]
SumOut0 == [done |-> FALSE, r |-> [exc |-> "none", data |-> NoData, dfs |-> <<>>]]

Threads == {1, 2}

Got0 == [exc |-> "none", v |-> 0, owner |-> 0]
Job0 == [n |-> 0, e |-> "plain"]

NoRet == [kind |-> "none", ref |-> 0, v |-> <<>>, exc |-> "none"]
Verb0 ==
    [kind |-> "none", new_columns |-> <<>>, expressions |-> <<>>, groups |-> <<>>,
     args |-> {}, kw |-> NoKw, columns |-> <<>>, keep |-> "first", n |-> 0,
     func |-> "none", hasnew |-> FALSE, lookup |-> <<>>]

IdleSel == selIn = SelIdle /\ selOut = SelOut0
IdleNth == nthIn = NthIdle /\ nthOut = NthOut0
IdleGi == giIn = GiIdle /\ giOut = GiOut0
IdleSum == sumIn = SumIdle /\ sumOut = SumOut0
IdleEval ==
    /\ registry = aggregate_functions
    /\ pcE = [t \in Threads |-> "idle"]
    /\ job = [t \in Threads |-> Job0]
    /\ got = [t \in Threads |-> Got0]
    /\ calls = [t \in Threads |-> 0]
IdleVerbs ==
    /\ option = FALSE
    /\ frames = <<>>
    /\ mgrs = <<>>
    /\ call = Verb0
    /\ ret = NoRet
    /\ orig = NoData
    /\ pcV = "off"

-----------------------------------------------------------------------------
(* The specification of select *)

InitSel ==
    /\ \E cs \in SelColumnLists :
       \E g \in {<<>>} \cup {<<c>> : c \in Range(cs)} :
       \E a \in {{}} \cup {{c} : c \in SelNames} :
       \E kw \in SelKwargs :
          selIn = [data |-> [cols |-> cs, index |-> <<>>,
                             val |-> [c \in Range(cs) |-> <<>>], groups |-> g],
                   args |-> a, kw |-> kw]
    /\ selOut = SelOut0
    /\ IdleNth /\ IdleGi /\ IdleSum /\ IdleEval /\ IdleVerbs

DoSelect ==
    /\ ~selOut.done
    /\ selOut' = [done |-> TRUE, data |-> select(selIn.data, selIn.args, selIn.kw)]
    /\ UNCHANGED <<selIn, nthVars, giVars, sumVars, evalVars, verbVars>>

NextSel == DoSelect

SpecSel == InitSel /\ [][NextSel]_vars

\* The inclusion flag of column c, as the claim states it.
SelMatches(c) ==
    \/ c \in selIn.args
    \/ selIn.kw.startswith # "" /\ IsStr(c)
          /\ StartsWith(Chars(c), Chars(selIn.kw.startswith))
    \/ selIn.kw.endswith # "" /\ IsStr(c)
          /\ EndsWith(Chars(c), Chars(selIn.kw.endswith))
    \/ selIn.kw.contains # "" /\ IsStr(c)
          /\ Contains(Chars(c), Chars(selIn.kw.contains))
    \/ selIn.kw.matches # "" /\ IsStr(c)
          /\ ReMatch(Chars(selIn.kw.matches), Chars(c))
    \/ c \in Range(selIn.data.groups)

SelFlag(c) == IF selIn.kw.drop THEN ~SelMatches(c) ELSE SelMatches(c)

\* C2: select keeps exactly the columns whose inclusion flag is true, in
\* their order; the flag is the OR of the name, startswith, endswith,
\* contains, regex and group-key tests, inverted by drop after the group
\* keys were folded in.  So with drop a group key that matches nothing else
\* is removed, and without drop every group key is kept.
C2_SelectKeepsFlagged ==
    selOut.done =>
        /\ selOut.data.cols = SelectSeq(selIn.data.cols, SelFlag)
        /\ (~selIn.kw.drop =>
                Range(selIn.data.groups) \subseteq Range(selOut.data.cols))
        /\ (selIn.kw.drop =>
                Range(selIn.data.groups) \cap Range(selOut.data.cols) = {})

\* A grouped frame with key x, select(startswith="a", drop=true): x is gone.
C2_Witness ==
    /\ selOut.done
    /\ selIn.data.cols = <<"x", "ax", "xa">>
    /\ selIn.data.groups = <<"x">>
    /\ selIn.args = {}
    /\ selIn.kw = [NoKw EXCEPT !.startswith = "a", !.drop = TRUE]
    /\ selOut.data.cols = <<"xa">>

-----------------------------------------------------------------------------
(* The specification of the positional reducers *)

NthInputs ==
    [f : {"first", "last", "nth"}, arr : SeqsUpTo(Values, MaxRows),
     n : (0 - MaxRows - 1)..(MaxRows + 1)]

InitNth ==
    /\ nthIn \in NthInputs
    /\ nthOut = NthOut0
    /\ IdleSel /\ IdleGi /\ IdleSum /\ IdleEval /\ IdleVerbs

DoNth ==
    /\ ~nthOut.done
    /\ nthOut' = [done |-> TRUE,
                  r |-> CASE nthIn.f = "first" -> first(nthIn.arr)
                          [] nthIn.f = "last" -> last(nthIn.arr)
                          [] nthIn.f = "nth" -> nth(nthIn.arr, nthIn.n)]
    /\ UNCHANGED <<nthIn, selVars, giVars, sumVars, evalVars, verbVars>>

NextNth == DoNth

SpecNth == InitNth /\ [][NextNth]_vars

NthIndex == CASE nthIn.f = "first" -> 0
              [] nthIn.f = "last" -> 0 - 1
              [] nthIn.f = "nth" -> nthIn.n

NthInRange ==
    (NthIndex >= 0 /\ NthIndex < Len(nthIn.arr))
        \/ (NthIndex < 0 /\ 0 - NthIndex <= Len(nthIn.arr))

\* C9: first, last and nth never raise: out of the index range (and on an
\* empty partition) they return not-a-number, in range they return the
\* element at the position.
C9_PositionalReducersNeverRaise ==
    nthOut.done =>
        /\ nthOut.r.exc = "none"
        /\ (~NthInRange => nthOut.r.nan)
        /\ (NthInRange =>
                ~nthOut.r.nan /\ nthOut.r.v =
                    nthIn.arr[IF NthIndex >= 0 THEN NthIndex + 1
                              ELSE Len(nthIn.arr) + NthIndex + 1])

-----------------------------------------------------------------------------
(* The specification of group_indices *)

KeyLists == {<<>>, <<"x">>, <<"y">>, <<"y", "x">>}

InitGi ==
    /\ \E d \in Frames(MaxRows, {<<>>, <<"x">>, <<"y">>, <<"x", "y">>}) :
       \E g \in KeyLists :
       \E inc \in BOOLEAN :
          giIn = [data |-> d, groups |-> g, new_columns |-> g,
                  expressions |-> [i \in 1..Len(g) |->
                        IF inc THEN TextInc(g[i]) ELSE Text(g[i])]]
    /\ giOut = GiOut0
    /\ IdleSel /\ IdleNth /\ IdleSum /\ IdleEval /\ IdleVerbs

DoGroupIndices ==
    /\ ~giOut.done
    /\ giOut' = [done |-> TRUE,
                 r |-> group_indices(giIn.data, giIn.groups, giIn.new_columns,
                                     giIn.expressions)]
    /\ UNCHANGED <<giIn, selVars, nthVars, sumVars, evalVars, verbVars>>

NextGi == DoGroupIndices

SpecGi == InitGi /\ [][NextGi]_vars

\* The key tuple of row p: of the columns group_indices groups on; for an
\* ungrouped frame these are the values of the key expressions.
GiKey(p) ==
    IF giIn.data.groups # <<>>
    THEN [j \in 1..Len(giOut.r.groups) |-> giIn.data.val[giOut.r.groups[j]][p]]
    ELSE [j \in 1..Len(giIn.groups) |->
            IF giIn.expressions[j].k = "inc"
            THEN giIn.data.val[giIn.expressions[j].c][p] + 1
            ELSE giIn.data.val[giIn.expressions[j].c][p]]

GiKeys == {GiKey(p) : p \in 1..NRows(giIn.data)}

C10_ExplicitKeysIgnored ==
    (giOut.done /\ giIn.data.groups # <<>> /\ giIn.groups # <<>>) =>
        /\ giOut.r.warned
        /\ giOut.r.exc = "none"
        /\ giOut.r.v = group_indices(giIn.data, <<>>, <<>>, <<>>).v

-----------------------------------------------------------------------------
(* The specification of summarize *)

SumExprs ==
    {CountN, Agg("sum", "y"), Agg("first", "y"), NthOf("y", 1), ColExpr("y"), Lit(7)}

SumCalls ==
    {[columns |-> <<>>, expressions |-> <<>>]}
    \cup {[columns |-> <<c>>, expressions |-> <<e>>] :
            c \in {"a", "x"}, e \in SumExprs}
    \cup {[columns |-> <<"a", "b">>, expressions |-> <<e1, e2>>] :
            e1 \in SumExprs, e2 \in SumExprs}

InitSum ==
    /\ \E d \in Frames(MaxRows, {<<>>, <<"x">>, <<"y", "x">>}) :
       \E c \in SumCalls :
          sumIn = [data |-> d, columns |-> c.columns, expressions |-> c.expressions]
    /\ sumOut = SumOut0
    /\ IdleSel /\ IdleNth /\ IdleGi /\ IdleEval /\ IdleVerbs

DoSummarize ==
    /\ ~sumOut.done
    /\ sumOut' = [done |-> TRUE,
                  r |-> summarize(sumIn.data, sumIn.columns, sumIn.expressions)]
    /\ UNCHANGED <<sumIn, selVars, nthVars, giVars, evalVars, verbVars>>

NextSum == DoSummarize

SpecSum == InitSum /\ [][NextSum]_vars

SumKeys == SortedTuples(KeySet(sumIn.data, sumIn.data.groups))

SumReturned == sumOut.done /\ sumIn.data.groups # <<>> /\ sumOut.r.exc = "none"

\* an expression that yields one value for a partition
SingleValued(e) == e.k \in {"n", "lit"} \/ (e.k = "agg" /\ e.f # "cumsum")

\* C5, as claimed: grouped summarize returns exactly one row per distinct
\* key tuple, for every expression list.
C5_OneRowPerPartition ==
    SumReturned => NRows(sumOut.r.data) = Len(SumKeys)

\* C5, amended: when grouped summarize returns, the group keys are the
\* leading columns, partition i (in ascending key order) contributes as many
\* rows as its first expression has values, each holding that partition's
\* key values; if every expression yields one value per partition there is
\* exactly one row per distinct key tuple.
C5_RowsPerPartition ==
    SumReturned =>
        LET out == sumOut.r.data
            dfs == sumOut.r.dfs
            keys == sumIn.data.groups
            part == Partitions(sumIn.data)
            len(i) == LET e == sumIn.expressions[1]
                      IN IF SingleValued(e) THEN 1 ELSE NRows(part[i])
            before(i) == TotalRows(SubSeq(dfs, 1, i - 1))
        IN /\ SubSeq(out.cols, 1, Len(keys)) = keys
           /\ Len(dfs) = Len(SumKeys)
           /\ \A i \in 1..Len(dfs) : NRows(dfs[i]) = len(i)
           /\ NRows(out) = TotalRows(dfs)
           /\ \A i \in 1..Len(dfs) : \A j \in 1..NRows(dfs[i]) :
                  KeyOf(out, keys, before(i) + j) = SumKeys[i]
           /\ ((\A i \in 1..Len(sumIn.expressions) : SingleValued(sumIn.expressions[i]))
                  => /\ NRows(out) = Len(SumKeys)
                     /\ \A i \in 1..Len(SumKeys) : KeyOf(out, keys, i) = SumKeys[i])

\* x = [1, 1, 2] grouped by x with a = {n}: the rows (x=1, a=2), (x=2, a=1).
C5_Witness ==
    /\ SumReturned
    /\ sumIn.data.groups = <<"x">>
    /\ sumIn.data.val["x"] = <<1, 1, 2>>
    /\ sumIn.expressions = <<CountN>>
    /\ sumIn.columns = <<"a">>
    /\ sumOut.r.data.cols = <<"x", "a">>
    /\ sumOut.r.data.val["x"] = <<1, 2>>
    /\ sumOut.r.data.val["a"] = <<2, 1>>

-----------------------------------------------------------------------------
(* The specification of the evaluations of summarize expressions: each      *)
(* thread runs the with-block of _eval_summarize_expressions, one text      *)
(* expression after the other, on the module-level registry.                *)

\* temporary_key(d, key, value): d[key] = value on entry ...
TemporaryKeyEnter(d, key, value) ==
    [k \in DOMAIN d \cup {key} |-> IF k = key THEN value ELSE d[k]]

\* ... and del d[key] on exit, also when the body raised.
TemporaryKeyExit(d, key) == [k \in DOMAIN d \ {key} |-> d[k]]

\* def _plydata_n(): return len(gdf) -- a closure over the caller's gdf
PlydataN(t, n) == [fn |-> "_plydata_n", owner |-> t, n |-> n]

\* The kinds of text expression: one that holds the placeholder {n}, one
\* that calls a reducer only, and one that fails in the evaluator.
EvalKinds == {"count", "plain", "fail"}

InitEval ==
    /\ IdleEval
    /\ IdleSel /\ IdleNth /\ IdleGi /\ IdleSum /\ IdleVerbs

\* with temporary_key(_aggregate_functions, '_plydata_n', _plydata_n):
EnterEval(t) ==
    /\ pcE[t] = "idle"
    /\ calls[t] < MaxEvals
    /\ \E n \in 1..MaxRows : \E e \in EvalKinds :
          /\ job' = [job EXCEPT ![t] = [n |-> n, e |-> e]]
          /\ registry' = TemporaryKeyEnter(registry, PlaceholderKey, PlydataN(t, n))
    /\ pcE' = [pcE EXCEPT ![t] = "entered"]
    /\ UNCHANGED <<got, calls, selVars, nthVars, giVars, sumVars, verbVars>>

\* value = env.eval(expr, inner_namespace=gdf): the names of the
\* expression are looked up in the registry as it is now.
Evaluate(t) ==
    /\ pcE[t] = "entered"
    /\ got' = [got EXCEPT ![t] =
            CASE job[t].e = "fail" -> [exc |-> "NameError", v |-> 0, owner |-> 0]
              [] job[t].e = "plain" ->
                    IF "sum" \in DOMAIN registry /\ registry["sum"].fn = "np.sum"
                    THEN [exc |-> "none", v |-> 0, owner |-> 0]
                    ELSE [exc |-> "NameError", v |-> 0, owner |-> 0]
              [] job[t].e = "count" ->
                    IF PlaceholderKey \in DOMAIN registry
                    THEN [exc |-> "none", v |-> registry[PlaceholderKey].n,
                          owner |-> registry[PlaceholderKey].owner]
                    ELSE [exc |-> "NameError", v |-> 0, owner |-> 0]]
    /\ pcE' = [pcE EXCEPT ![t] = "evaluated"]
    /\ UNCHANGED <<registry, job, calls, selVars, nthVars, giVars, sumVars, verbVars>>

\* the end of the with-block
ExitEval(t) ==
    /\ pcE[t] = "evaluated"
    /\ IF PlaceholderKey \in DOMAIN registry
       THEN /\ registry' = TemporaryKeyExit(registry, PlaceholderKey)
            /\ got' = got
       ELSE /\ registry' = registry
            /\ got' = [got EXCEPT ![t].exc = IF @ = "none" THEN "KeyError" ELSE @]
    /\ pcE' = [pcE EXCEPT ![t] = "idle"]
    /\ calls' = [calls EXCEPT ![t] = @ + 1]
    /\ UNCHANGED <<job, selVars, nthVars, giVars, sumVars, verbVars>>

NextEval == \E t \in Threads : EnterEval(t) \/ Evaluate(t) \/ ExitEval(t)

SpecEval == InitEval /\ [][NextEval]_vars

\* C6: every evaluation of the placeholder returns the row count of the
\* partition its own call works on; it never finds the function missing or
\* registered by another call.
C6_PlaceholderNeverLeaks ==
    \A t \in Threads :
        (pcE[t] = "evaluated" /\ job[t].e = "count") =>
            /\ got[t].exc = "none"
            /\ got[t].v = job[t].n
            /\ got[t].owner = t

\* C7: whenever no expression evaluation is in progress, the registry maps
\* exactly the fixed names to their original reducers and holds no
\* row-count entry.
C7_RegistryRestored ==
    (\A t \in Threads : pcE[t] = "idle") => registry = aggregate_functions

\* Both threads have finished evaluations, one of which raised.
C7_Witness ==
    /\ \A t \in Threads : pcE[t] = "idle" /\ calls[t] > 0
    /\ job[1].e = "fail" /\ got[1].exc = "NameError"
    /\ job[2].e = "count" /\ got[2].exc = "none"
    /\ registry = aggregate_functions

-----------------------------------------------------------------------------
(* The specification of the verb handlers.  Frame object 1 is the caller's  *)
(* input, verb.data; orig is its value before the call.                     *)

Heap == [frames |-> frames, mgrs |-> mgrs]

MutExprs ==
    {Text("x"), Text("y"), TextInc("x"), Text("z"), SeqVal(<<2, 1>>), Scalar(5)}

MutCalls ==
    {[new_columns |-> <<>>, expressions |-> <<>>]}
    \cup {[new_columns |-> <<c>>, expressions |-> <<e>>] :
            c \in {"x", "y", "z"}, e \in MutExprs}
    \cup {[new_columns |-> cs, expressions |-> <<e1, e2>>] :
            cs \in {<<"x", "y">>, <<"z", "x">>}, e1 \in MutExprs, e2 \in MutExprs}

InitVerbs ==
    /\ option \in BOOLEAN
    /\ \E d \in Frames(MaxVerbRows, {<<>>, <<"x">>, <<"y", "x">>}) :
          /\ frames = <<[mgr |-> 1, groups |-> d.groups]>>
          /\ mgrs = <<Block(d)>>
          /\ orig = d
    /\ call = Verb0
    /\ ret = NoRet
    /\ pcV = "ready"
    /\ IdleSel /\ IdleNth /\ IdleGi /\ IdleSum /\ IdleEval

Finish(result, verb) ==
    \E r \in {result} :
       /\ frames' = r.h.frames
       /\ mgrs' = r.h.mgrs
       /\ ret' = r.ret
       /\ call' = verb
       /\ pcV' = "returned"
    /\ UNCHANGED <<option, orig, selVars, nthVars, giVars, sumVars, evalVars>>

Mutate ==
    /\ pcV = "ready"
    /\ \E c \in MutCalls :
          Finish(mutate(Heap, option, 1, c.new_columns, c.expressions),
                 [Verb0 EXCEPT !.kind = "mutate", !.new_columns = c.new_columns,
                               !.expressions = c.expressions])

Transmute ==
    /\ pcV = "ready"
    /\ \E c \in MutCalls :
          Finish(transmute(Heap, 1, c.new_columns, c.expressions),
                 [Verb0 EXCEPT !.kind = "transmute", !.new_columns = c.new_columns,
                               !.expressions = c.expressions])

GroupBy ==
    /\ pcV = "ready"
    /\ \E c \in MutCalls : \E g \in {<<"x">>, <<"y", "x">>} :
          Finish(group_by(Heap, option, 1, g, c.new_columns, c.expressions),
                 [Verb0 EXCEPT !.kind = "group_by", !.groups = g,
                               !.new_columns = c.new_columns,
                               !.expressions = c.expressions])

Distinct ==
    /\ pcV = "ready"
    /\ \E c \in MutCalls : \E hasnew \in BOOLEAN :
       \E columns \in {<<>>, <<"x">>} : \E keep \in {"first", "last", "none"} :
          /\ (~hasnew => c.new_columns = <<>>)
          /\ Finish(distinct(Heap, option, 1, hasnew, c.new_columns, c.expressions,
                             columns, keep),
                    [Verb0 EXCEPT !.kind = "distinct", !.hasnew = hasnew,
                                  !.new_columns = c.new_columns,
                                  !.expressions = c.expressions,
                                  !.columns = columns, !.keep = keep])

Select ==
    /\ pcV = "ready"
    /\ \E args \in {{}, {"x"}} :
       \E kw \in {NoKw, [NoKw EXCEPT !.drop = TRUE], [NoKw EXCEPT !.startswith = "y"]} :
          Finish(select_frame(Heap, 1, args, kw),
                 [Verb0 EXCEPT !.kind = "select", !.args = args, !.kw = kw])

Rename ==
    /\ pcV = "ready"
    /\ \E lookup \in {("x" :> "z"), ("x" :> "y" @@ "y" :> "x")} :
          Finish(rename(Heap, option, 1, lookup),
                 [Verb0 EXCEPT !.kind = "rename", !.lookup = lookup])

Arrange ==
    /\ pcV = "ready"
    /\ \E e \in {<<>>, <<Text("x")>>, <<Text("y"), Text("x")>>, <<Text("z")>>} :
          Finish(arrange(Heap, 1, e),
                 [Verb0 EXCEPT !.kind = "arrange", !.expressions = e])

Ungroup ==
    /\ pcV = "ready"
    /\ Finish(ungroup(Heap, 1), [Verb0 EXCEPT !.kind = "ungroup"])

GroupIndices ==
    /\ pcV = "ready"
    /\ \E g \in {<<>>, <<"x">>, <<"y">>} :
          Finish(group_indices_frame(Heap, 1, g, g, [i \in 1..Len(g) |-> Text(g[i])]),
                 [Verb0 EXCEPT !.kind = "group_indices", !.groups = g,
                               !.new_columns = g,
                               !.expressions = [i \in 1..Len(g) |-> Text(g[i])]])

Summarize ==
    /\ pcV = "ready"
    /\ \E e \in {<<>>, <<CountN>>, <<ColExpr("y")>>, <<Agg("first", "y")>>} :
          Finish(summarize_frame(Heap, 1, [i \in 1..Len(e) |-> "a"], e),
                 [Verb0 EXCEPT !.kind = "summarize",
                               !.new_columns = [i \in 1..Len(e) |-> "a"],
                               !.expressions = e])

Query ==
    /\ pcV = "ready"
    /\ \E c \in {"x", "z"} : \E v \in Values :
          Finish(query(Heap, 1, [c |-> c, v |-> v]),
                 [Verb0 EXCEPT !.kind = "query", !.args = {c}, !.n = v])

Do ==
    /\ pcV = "ready"
    /\ \E f \in {"ident", "head1", "ycol", "none"} :
       \E fs \in {<<>>, <<"len">>, <<"yvals">>} :
          /\ (f # "none" => fs = <<>>)
          /\ Finish(do(Heap, 1, f, [i \in 1..Len(fs) |-> "a"], fs),
                    [Verb0 EXCEPT !.kind = "do", !.func = f, !.columns = fs])

HeadVerb ==
    /\ pcV = "ready"
    /\ \E n \in 0..MaxVerbRows :
          Finish(head(Heap, 1, n), [Verb0 EXCEPT !.kind = "head", !.n = n])

TailVerb ==
    /\ pcV = "ready"
    /\ \E n \in 0..MaxVerbRows :
          Finish(tail(Heap, 1, n), [Verb0 EXCEPT !.kind = "tail", !.n = n])

\* The caller writes a column of the frame the verb returned.
WriteResult ==
    /\ pcV = "returned"
    /\ ret.kind = "frame"
    /\ LET data == View(Heap, ret.ref)
           h1 == Store(Heap, ret.ref, SetCol(data, "x", [i \in 1..NRows(data) |-> 9]))
       IN /\ frames' = h1.frames
          /\ mgrs' = h1.mgrs
    /\ pcV' = "written"
    /\ UNCHANGED <<option, call, ret, orig, selVars, nthVars, giVars, sumVars, evalVars>>

NextMutate == Mutate \/ Transmute \/ GroupBy \/ Distinct

SpecMutate == InitVerbs /\ [][NextMutate]_vars

NextVerbs ==
    \/ Mutate \/ Transmute \/ Select \/ Rename \/ Distinct \/ Arrange \/ GroupBy
    \/ Ungroup \/ GroupIndices \/ Summarize \/ Query \/ Do \/ HeadVerb \/ TailVerb
    \/ WriteResult

SpecVerbs == InitVerbs /\ [][NextVerbs]_vars

\* C1: with modify_input_data disabled the caller's input has the same
\* columns, values, row order and group tag after the handler returned or
\* raised, and after later writes to the returned dataset.
C1_InputNeverChanges ==
    (pcV \in {"returned", "written"} /\ ~option) => View(Heap, 1) = orig

\* The value of an expression against the frame d, and whether it has one.
ExprOk(e, d, broadcast) ==
    \/ IsText(e) /\ e.c \in Range(d.cols)
    \/ e.k = "seq" /\ Len(e.v) = NRows(d)
    \/ broadcast /\ e.k = "scalar"

ExprVal(e, d) ==
    CASE e.k = "col" -> d.val[e.c]
      [] e.k = "inc" -> [i \in 1..NRows(d) |-> d.val[e.c][i] + 1]
      [] e.k = "seq" -> e.v
      [] e.k = "scalar" -> [i \in 1..NRows(d) |-> e.v[1]]

LastOf(c) ==
    CHOOSE i \in 1..Len(call.new_columns) :
        call.new_columns[i] = c
            /\ \A j \in (i + 1)..Len(call.new_columns) : call.new_columns[j] # c

\* The frame d with every new column set to the value its expression has
\* against d itself.
NonCascading(d) ==
    LET IsNew(c) == c \notin Range(d.cols)
    IN [cols |-> d.cols \o SelectSeq(call.new_columns, IsNew),
        index |-> d.index,
        val |-> [c \in Range(d.cols) \cup Range(call.new_columns) |->
                    IF c \in Range(call.new_columns)
                    THEN ExprVal(call.expressions[LastOf(c)], d)
                    ELSE d.val[c]],
        groups |-> d.groups]

AllExprsOk == \A i \in 1..Len(call.expressions) : ExprOk(call.expressions[i], orig, FALSE)

\* C3: mutate, also through group_by and distinct and under both settings of
\* modify_input_data, gives every new column the value of its expression
\* against the pre-mutation columns; the other columns, the rows, their
\* order and the group tag are unchanged.
C3_MutateNonCascading ==
    (pcV = "returned" /\ AllExprsOk) =>
        /\ (call.kind = "mutate" =>
                ret.kind = "frame" /\ View(Heap, ret.ref) = NonCascading(orig))
        /\ (call.kind = "group_by" =>
                /\ ret.kind = "frame"
                /\ View(Heap, ret.ref) =
                        NonCascading([orig EXCEPT !.groups = call.groups]))
        /\ ((call.kind = "distinct" /\ call.hasnew) =>
                /\ ret.kind = "frame"
                /\ View(Heap, ret.ref) =
                        DropDuplicates(NonCascading(orig), call.columns, call.keep))

\* mutate(D, x=D.y, y=D.x) on columns that differ: x and y are swapped.
C3_Witness ==
    /\ pcV = "returned"
    /\ call.kind = "mutate"
    /\ call.new_columns = <<"x", "y">>
    /\ call.expressions = <<Text("y"), Text("x")>>
    /\ orig.val["x"] = <<1, 2>>
    /\ orig.val["y"] = <<2, 2>>
    /\ ret.kind = "frame"
    /\ View(Heap, ret.ref).val["x"] = <<2, 2>>
    /\ View(Heap, ret.ref).val["y"] = <<1, 2>>

FirstBad(broadcast) ==
    LET bad == {i \in 1..Len(call.expressions) :
                    ~ExprOk(call.expressions[i], orig, broadcast)}
    IN IF bad = {} THEN 0 ELSE CHOOSE i \in bad : \A j \in bad : i <= j

NoColumnAssigned ==
    /\ View(Heap, 1) = orig
    /\ \A r \in 1..Len(frames) : Range(View(Heap, r).cols) \subseteq Range(orig.cols)

\* The outcome of mutate and transmute by the shape of the expressions; with
\* broadcast a value without a length counts as a column of that value.
ByShape(broadcast) ==
    (pcV = "returned" /\ call.kind \in {"mutate", "transmute"}) =>
        LET f == FirstBad(broadcast)
            out == View(Heap, ret.ref)
        IN IF f = 0
           THEN /\ ret.kind = "frame"
                /\ \A i \in 1..Len(call.expressions) :
                      (~IsText(call.expressions[i]) /\ LastOf(call.new_columns[i]) = i)
                          => out.val[call.new_columns[i]] = ExprVal(call.expressions[i], orig)
           ELSE /\ ret.kind = "raise"
                /\ ret.exc = (CASE call.expressions[f].k = "seq" -> "ValueError"
                                [] call.expressions[f].k = "scalar" -> "TypeError"
                                [] OTHER -> "NameError")
                /\ NoColumnAssigned

\* C8, as claimed: a sequence of the frame's length becomes the column, a
\* scalar is broadcast to every row, a sequence of another length is a
\* value error, and in the failure cases no column is assigned.
C8_ScalarIsBroadcast == ByShape(TRUE)

\* C8, amended: a sequence of the frame's length becomes the column
\* verbatim, a sequence of another length is a value error, and a value
\* without a length -- a scalar included -- is a type error; after either
\* error no column is assigned.
C8_MaterializedByShape == ByShape(FALSE)

\* transmute with a sequence of the right length and then a scalar: a type
\* error, and the input is as it was.
C8_Witness ==
    /\ pcV = "returned"
    /\ call.kind = "transmute"
    /\ call.expressions = <<SeqVal(<<2, 1>>), Scalar(5)>>
    /\ NRows(orig) = Len(<<2, 1>>)
    /\ ret.kind = "raise"
    /\ ret.exc = "TypeError"
    /\ NoColumnAssigned

====
